---- MODULE Spec2Model ----
(***************************************************************************)
(* Model of protocol.py: the dataclass schema of the chat protocol and the *)
(* generic JSON (de)serialization of _Serializable (to_json / from_json).  *)
(*                                                                         *)
(* Python values are tagged records:                                       *)
(*   int   [t |-> "int",  i |-> n]                                         *)
(*   str   [t |-> "str",  s |-> "A"]                                       *)
(*   bool  [t |-> "bool", b |-> TRUE]                                      *)
(*   list  [t |-> "list", id |-> n, items |-> <<...>>]                     *)
(*   dict  [t |-> "dict", id |-> n, m |-> [key |-> value]]                 *)
(*   dataclass instance [t |-> "obj", cls |-> "Chat", kw |-> [name |-> v]] *)
(* id is the identity of a mutable container: the containers of the wire   *)
(* value handed to from_json carry distinct positive ids, a container      *)
(* built by the code (a list comprehension, asdict) carries id 0.          *)
(***************************************************************************)
EXTENDS Integers, Sequences, FiniteSets, TLC

VARIABLES cls, r0, w0, w, rec, pc

vars == <<cls, r0, w0, w, rec, pc>>

\* ---------------------------------------------------------------- bounds
MaxLen == 2

\* ---------------------------------------------------------------- values
PyInt(n) == [t |-> "int", i |-> n]
PyStr(s) == [t |-> "str", s |-> s]
PyBool(b) == [t |-> "bool", b |-> b]
PyList(id, items) == [t |-> "list", id |-> id, items |-> items]
PyDict(id, m) == [t |-> "dict", id |-> id, m |-> m]
Instance(c, kw) == [t |-> "obj", cls |-> c, kw |-> kw]

None == [t |-> "none"]

\* outcome of a call: a returned value or a raised exception
Return(v) == [ok |-> TRUE, val |-> v]
Raise(e) == [ok |-> FALSE, err |-> e]

\* ---------------------------------------------------------------- schema
Field(n, ty) == [name |-> n, type |-> ty]

BroadcastRequest ==
  << Field("chat_id", "int"), Field("user_id", "int"),
     Field("user_name", "str"), Field("message_text", "str") >>

User == << Field("user_id", "int"), Field("user_name", "str") >>

Chat == << Field("chat_id", "int"), Field("chat_name", "str") >>

Message ==
  << Field("message_id", "int"), Field("chat_id", "int"),
     Field("user_id", "int"), Field("message_text", "str"),
     Field("message_ts", "int") >>

InsertUserRequest == << Field("user_name", "str") >>

InsertUserResponse == << Field("user_id", "int") >>

GetChatsRequest == << Field("user_id", "int") >>

GetChatsResponse == << Field("chats", "List[Chat]") >>

InsertChatRequest ==
  << Field("chat_name", "str"), Field("user_ids", "List[int]") >>

InsertChatResponse == << Field("chat_id", "int") >>

GetParticipantsRequest == << Field("chat_id", "int") >>

GetParticipantsResponse == << Field("users", "List[User]") >>

GetMessagesRequest == << Field("chat_id", "int") >>

GetMessagesResponse == << Field("messages", "List[Message]") >>

InsertMessageRequest ==
  << Field("chat_id", "int"), Field("user_id", "int"),
     Field("message_text", "str"), Field("message_timestamp", "int") >>

InsertMessageResponse == << Field("message_id", "int") >>

Entities == {"User", "Chat", "Message"}

Classes ==
  Entities \cup
  {"BroadcastRequest", "InsertUserRequest", "InsertUserResponse",
   "GetChatsRequest", "GetChatsResponse", "InsertChatRequest",
   "InsertChatResponse", "GetParticipantsRequest",
   "GetParticipantsResponse", "GetMessagesRequest", "GetMessagesResponse",
   "InsertMessageRequest", "InsertMessageResponse"}

\* dataclasses.fields(cls)
fields(c) ==
  CASE c = "BroadcastRequest" -> BroadcastRequest
    [] c = "User" -> User
    [] c = "Chat" -> Chat
    [] c = "Message" -> Message
    [] c = "InsertUserRequest" -> InsertUserRequest
    [] c = "InsertUserResponse" -> InsertUserResponse
    [] c = "GetChatsRequest" -> GetChatsRequest
    [] c = "GetChatsResponse" -> GetChatsResponse
    [] c = "InsertChatRequest" -> InsertChatRequest
    [] c = "InsertChatResponse" -> InsertChatResponse
    [] c = "GetParticipantsRequest" -> GetParticipantsRequest
    [] c = "GetParticipantsResponse" -> GetParticipantsResponse
    [] c = "GetMessagesRequest" -> GetMessagesRequest
    [] c = "GetMessagesResponse" -> GetMessagesResponse
    [] c = "InsertMessageRequest" -> InsertMessageRequest
    [] c = "InsertMessageResponse" -> InsertMessageResponse

\* typing.List[X]: the only annotations that carry __args__
ListTypes == {"List[Chat]", "List[User]", "List[Message]", "List[int]"}

\* type_.__args__[0]
Args0(ty) ==
  CASE ty = "List[Chat]" -> "Chat"
    [] ty = "List[User]" -> "User"
    [] ty = "List[Message]" -> "Message"
    [] ty = "List[int]" -> "int"

FieldNames(c) == {fields(c)[k].name : k \in 1..Len(fields(c))}

\* ------------------------------------------------------------- from_json
RECURSIVE from_json(_, _)
RECURSIVE FieldLoop(_, _, _, _)
RECURSIVE ListComp(_, _, _, _)
RECURSIVE _parse_field(_, _)

\* variant: never recurses, every value is used as-is
_parse_field_as_is(type_, value) == Return(value)

\* variant: recurses only where a record class is declared, a mapping at
\* any other declared type is used as-is
_parse_field_declared(type_, value) ==
  IF value.t = "dict" /\ type_ \in Classes
    THEN from_json(type_, value)
    ELSE Return(value)

\* def _parse_field(type_, value):
\*     return type_.from_json(value) if isinstance(value, dict) else value
\* int, str and List[X] have no attribute from_json.
_parse_field(type_, value) ==
  IF value.t = "dict"
    THEN IF type_ \in Classes
           THEN from_json(type_, value)
           ELSE Raise("AttributeError")
    ELSE Return(value)

\* variant: builds the list back to front
ListComp_reversed(type_, items, k, acc) ==
  IF k > Len(items)
    THEN Return(PyList(0, acc))
    ELSE LET p == _parse_field(type_, items[k])
         IN IF p.ok THEN ListComp(type_, items, k + 1, <<p.val>> \o acc)
                    ELSE p

\* variant: keeps only the elements that are mappings
ListComp_mappings_only(type_, items, k, acc) ==
  IF k > Len(items)
    THEN Return(PyList(0, acc))
    ELSE IF items[k].t # "dict"
           THEN ListComp(type_, items, k + 1, acc)
           ELSE LET p == _parse_field(type_, items[k])
                IN IF p.ok
                     THEN ListComp(type_, items, k + 1, Append(acc, p.val))
                     ELSE p

\* [_parse_field(type_, v) for v in value]: elements left to right, the
\* first exception escapes; the result is a new list.
ListComp(type_, items, k, acc) ==
  IF k > Len(items)
    THEN Return(PyList(0, acc))
    ELSE LET p == _parse_field(type_, items[k])
         IN IF p.ok THEN ListComp(type_, items, k + 1, Append(acc, p.val))
                    ELSE p

\* the body of the loop: the keyword argument built from one wire value.
\* int, str and the record classes have no attribute __args__.
FieldValue(field, value) ==
  IF value.t = "list"
    THEN IF field.type \in ListTypes
           THEN ListComp(Args0(field.type), value.items, 1, <<>>)
           ELSE Raise("AttributeError")
    ELSE _parse_field(field.type, value)

\* variant: json.get(field.name), an absent key leaves the field unset
FieldLoop_get(c, json, k, kwargs) ==
  IF k > Len(fields(c))
    THEN Return(Instance(c, kwargs))
    ELSE LET field == fields(c)[k]
         IN IF field.name \notin DOMAIN json.m
              THEN FieldLoop(c, json, k + 1, kwargs)
              ELSE LET res == FieldValue(field, json.m[field.name])
                   IN IF res.ok
                        THEN FieldLoop(c, json, k + 1,
                                       kwargs @@ (field.name :> res.val))
                        ELSE res

\* for field in dataclasses.fields(cls): ... json[field.name] ...
\* fields in declaration order, the first exception escapes; then
\* cls(**kwargs)
FieldLoop(c, json, k, kwargs) ==
  IF k > Len(fields(c))
    THEN Return(Instance(c, kwargs))
    ELSE LET field == fields(c)[k]
         IN IF field.name \notin DOMAIN json.m
              THEN Raise("KeyError")
              ELSE LET res == FieldValue(field, json.m[field.name])
                   IN IF res.ok
                        THEN FieldLoop(c, json, k + 1,
                                       kwargs @@ (field.name :> res.val))
                        ELSE res

\* variant: rejects a mapping that has a key the class does not declare
from_json_strict(c, json) ==
  IF DOMAIN json.m \subseteq FieldNames(c)
    THEN FieldLoop(c, json, 1, <<>>)
    ELSE Raise("TypeError")

from_json(c, json) == FieldLoop(c, json, 1, <<>>)

\* --------------------------------------------------------------- to_json
RECURSIVE asdict(_)

\* variant: one level only, dict(self.__dict__)
asdict_shallow(o) ==
  IF o.t = "obj"
    THEN PyDict(0, [n \in FieldNames(o.cls) |-> o.kw[n]])
    ELSE o

\* dataclasses.asdict: instances become dicts keyed by field name, lists and
\* dicts are rebuilt element by element, anything else is copied.
asdict(o) ==
  CASE o.t = "obj" ->
         PyDict(0, [n \in FieldNames(o.cls) |-> asdict(o.kw[n])])
    [] o.t = "list" ->
         PyList(0, [i \in 1..Len(o.items) |-> asdict(o.items[i])])
    [] o.t = "dict" ->
         PyDict(0, [key \in DOMAIN o.m |-> asdict(o.m[key])])
    [] OTHER -> o

to_json(self) == asdict(self)

\* ------------------------------------------------- identity and equality
RECURSIVE Erase(_)
RECURSIVE ContainerIds(_)
RECURSIVE Store(_, _, _, _)
RECURSIVE Label(_, _)

\* Python == on lists, dicts and dataclass instances is structural: the
\* value with the identities of its containers forgotten.
Erase(v) ==
  CASE v.t = "list" -> PyList(0, [i \in 1..Len(v.items) |-> Erase(v.items[i])])
    [] v.t = "dict" -> PyDict(0, [key \in DOMAIN v.m |-> Erase(v.m[key])])
    [] v.t = "obj" -> Instance(v.cls, [n \in DOMAIN v.kw |-> Erase(v.kw[n])])
    [] OTHER -> v

PyEq(a, b) == Erase(a) = Erase(b)

\* identities of the wire containers reachable from v
ContainerIds(v) ==
  CASE v.t = "list" ->
         ({v.id} \cup UNION {ContainerIds(v.items[i]) : i \in 1..Len(v.items)})
           \ {0}
    [] v.t = "dict" ->
         ({v.id} \cup UNION {ContainerIds(v.m[key]) : key \in DOMAIN v.m})
           \ {0}
    [] v.t = "obj" -> UNION {ContainerIds(v.kw[n]) : n \in DOMAIN v.kw}
    [] OTHER -> {}

\* what v reads as after the container with identity id is mutated in place:
\* a list gets x appended, a dict gets key set to x.  Every holder of the
\* container sees the change.
Store(v, id, key, x) ==
  CASE v.t = "list" ->
         LET items == [i \in 1..Len(v.items) |-> Store(v.items[i], id, key, x)]
         IN PyList(v.id, IF v.id = id THEN Append(items, x) ELSE items)
    [] v.t = "dict" ->
         LET m == [k \in DOMAIN v.m |-> Store(v.m[k], id, key, x)]
         IN PyDict(v.id, IF v.id = id
                           THEN [k \in DOMAIN m \cup {key} |->
                                   IF k = key THEN x ELSE m[k]]
                           ELSE m)
    [] v.t = "obj" ->
         Instance(v.cls, [n \in DOMAIN v.kw |-> Store(v.kw[n], id, key, x)])
    [] OTHER -> v

AllKeys ==
  << "chat_id", "user_id", "user_name", "message_text", "chat_name",
     "message_id", "message_ts", "message_timestamp", "chats", "users",
     "messages", "user_ids", "unexpected" >>

KeyIndex(key) == CHOOSE i \in 1..Len(AllKeys) : AllKeys[i] = key

Fanout == Len(AllKeys) + MaxLen + 1

\* a parsed JSON document is a tree of distinct objects: every container
\* gets an identity of its own, derived from its position
Label(v, base) ==
  CASE v.t = "list" ->
         PyList(base, [i \in 1..Len(v.items) |->
                         Label(v.items[i], base * Fanout + i)])
    [] v.t = "dict" ->
         PyDict(base, [key \in DOMAIN v.m |->
                         Label(v.m[key], base * Fanout + KeyIndex(key))])
    [] OTHER -> v

\* ---------------------------------------------------------------- inputs
Ints == {PyInt(1), PyInt(2)}
Strs == {PyStr("A"), PyStr("B")}

BoundedSeq(S, n) == UNION {[1..k -> S] : k \in 0..n}

RECURSIVE ValidInstances(_)
RECURSIVE ValidKwargs(_, _)

\* the values a validly-constructed record holds in a field of type ty
ValidValues(ty) ==
  CASE ty = "int" -> Ints
    [] ty = "str" -> Strs
    [] ty = "List[int]" -> {PyList(0, s) : s \in BoundedSeq(Ints, MaxLen)}
    [] OTHER ->
         {PyList(0, s) : s \in BoundedSeq(ValidInstances(Args0(ty)), MaxLen)}

ValidKwargs(c, k) ==
  IF k = 0
    THEN {<<>>}
    ELSE {kw @@ (fields(c)[k].name :> v) :
            kw \in ValidKwargs(c, k - 1), v \in ValidValues(fields(c)[k].type)}

ValidInstances(c) == {Instance(c, kw) : kw \in ValidKwargs(c, Len(fields(c)))}

\* wire values that do not fit any declared type
BadList == PyList(0, <<PyInt(1)>>)
BadDict == PyDict(0, "x" :> PyInt(1))
NestedList == PyList(0, <<PyDict(0, "chat_id" :> PyInt(1))>>)

Unexpected == "unexpected" :> PyBool(TRUE)

\* the value a well-formed wire mapping holds at a primitive field
Base(ty) == IF ty = "int" THEN PyInt(1) ELSE PyStr("A")

\* the other values tried at a primitive field
Deviations(ty) ==
  (IF ty = "int" THEN {PyInt(2), PyStr("A")} ELSE {PyStr("B"), PyInt(1)})
    \cup {BadList, BadDict}

RECURSIVE WireMaps(_, _, _)

\* mappings for the first k fields of c with at most budget fields absent or
\* different from Base
WireMaps(c, k, budget) ==
  IF k = 0
    THEN {<<>>}
    ELSE LET f == fields(c)[k]
         IN {p @@ (f.name :> Base(f.type)) : p \in WireMaps(c, k - 1, budget)}
            \cup
            (IF budget = 0
               THEN {}
               ELSE WireMaps(c, k - 1, budget - 1)
                    \cup {p @@ (f.name :> v) :
                            p \in WireMaps(c, k - 1, budget - 1),
                            v \in Deviations(f.type)})

\* the well-formed mapping of class c that differs from Base at every field
AltMap(c) ==
  [n \in FieldNames(c) |->
     LET k == CHOOSE j \in 1..Len(fields(c)) : fields(c)[j].name = n
     IN IF fields(c)[k].type = "int" THEN PyInt(2) ELSE PyStr("B")]

\* the elements tried inside an array declared to hold records of class c:
\* the mappings with at most one field absent or different from Base, the
\* well-formed mapping that differs everywhere, one with an undeclared key,
\* and three elements that are not mappings
ElemPool(c) ==
  {PyDict(0, m) : m \in WireMaps(c, Len(fields(c)), 1)}
    \cup {PyDict(0, AltMap(c))}
    \cup {PyDict(0, m @@ Unexpected) : m \in WireMaps(c, Len(fields(c)), 0)}
    \cup {PyInt(1), BadList, NestedList}

IntPool == Ints \cup {PyStr("A"), BadList, BadDict}

\* the values tried at a top-level field of declared type ty
TopChoices(ty) ==
  CASE ty \in {"int", "str"} -> {Base(ty)} \cup Deviations(ty)
    [] ty = "List[int]" ->
         {PyList(0, s) : s \in BoundedSeq(IntPool, MaxLen)}
           \cup {PyStr("not-an-array"), BadDict}
    [] OTHER ->
         {PyList(0, s) : s \in BoundedSeq(ElemPool(Args0(ty)), MaxLen)}
           \cup {PyStr("not-an-array"), BadDict}

RECURSIVE TopMaps(_, _)

TopMaps(c, k) ==
  IF k = 0
    THEN {<<>>, Unexpected}
    ELSE LET f == fields(c)[k]
         IN TopMaps(c, k - 1)
            \cup {p @@ (f.name :> v) :
                    p \in TopMaps(c, k - 1), v \in TopChoices(f.type)}

\* the wire mappings handed to from_json for class c
WireInputs(c) == {Label(PyDict(0, m), 1) : m \in TopMaps(c, Len(fields(c)))}

\* ----------------------------------------------------------- transitions
Init ==
  /\ cls \in Classes
  /\ \/ /\ r0 \in ValidInstances(cls)
        /\ w0 = None
        /\ pc = "rec"
     \/ /\ r0 = None
        /\ w0 \in WireInputs(cls)
        /\ pc = "wire"
  /\ w = None
  /\ rec = None

\* record.to_json(): of the initial record, or of the record just decoded
ToJson ==
  /\ \/ pc = "rec"
     \/ pc = "decoded" /\ rec.ok
  /\ w' = to_json(IF pc = "rec" THEN r0 ELSE rec.val)
  /\ pc' = IF pc = "rec" THEN "encoded" ELSE "reencoded"
  /\ UNCHANGED <<cls, r0, w0, rec>>

\* cls.from_json(json): of the input wire mapping, or of the value just
\* encoded
FromJson ==
  /\ pc \in {"wire", "encoded"}
  /\ rec' = from_json(cls, IF pc = "wire" THEN w0 ELSE w)
  /\ pc' = IF pc = "wire" THEN "decoded" ELSE "roundtrip"
  /\ UNCHANGED <<cls, r0, w0, w>>

\* the caller mutates a container of the wire value after decoding it
Mutate ==
  /\ pc = "decoded"
  /\ rec.ok
  /\ \E id \in ContainerIds(w0), key \in {"chat_id", "unexpected"} :
       /\ w0' = Store(w0, id, key, PyInt(0))
       /\ rec' = Return(Store(rec.val, id, key, PyInt(0)))
  /\ pc' = "mutated"
  /\ UNCHANGED <<cls, r0, w>>

Next == ToJson \/ FromJson \/ Mutate

Spec == Init /\ [][Next]_vars

TypeOK == pc \in {"rec", "wire", "encoded", "roundtrip", "decoded",
                  "reencoded", "mutated"}

\* ------------------------------------------------------ claim vocabulary
IsPrim(v) == v.t \notin {"list", "dict", "obj"}

\* the wire value that was decoded in the current state
Decoded == IF pc = "roundtrip" THEN w ELSE w0

\* fields of class c declared as a sequence
SeqFields(c) == {k \in 1..Len(fields(c)) : fields(c)[k].type \in ListTypes}

\* fields of class c declared as a sequence of records
RecSeqFields(c) == {k \in SeqFields(c) : Args0(fields(c)[k].type) \in Classes}

\* mapping m with the keys that class c does not declare removed
Restrict(c, m) == [n \in DOMAIN m \cap FieldNames(c) |-> m[n]]

\* wire mapping v of class c with every undeclared key removed, at the top
\* level and inside the mappings of its record sequences
DeclaredOnly(c, v) ==
  PyDict(v.id,
    [n \in DOMAIN v.m \cap FieldNames(c) |->
       LET k == CHOOSE j \in 1..Len(fields(c)) : fields(c)[j].name = n
           x == v.m[n]
       IN IF k \in RecSeqFields(c) /\ x.t = "list"
            THEN PyList(x.id,
                   [i \in 1..Len(x.items) |->
                      IF x.items[i].t = "dict"
                        THEN PyDict(x.items[i].id,
                               Restrict(Args0(fields(c)[k].type),
                                        x.items[i].m))
                        ELSE x.items[i]])
            ELSE x])

HasExtraKey(c, v) == Erase(DeclaredOnly(c, v)) # Erase(v)

\* a declared field of c is absent from v, or a declared field of a nested
\* record is absent from an element mapping of one of its record sequences
MissingField(c, v) ==
  \E k \in 1..Len(fields(c)) :
    \/ fields(c)[k].name \notin DOMAIN v.m
    \/ /\ k \in RecSeqFields(c)
       /\ v.m[fields(c)[k].name].t = "list"
       /\ \E i \in 1..Len(v.m[fields(c)[k].name].items) :
            LET e == v.m[fields(c)[k].name].items[i]
            IN /\ e.t = "dict"
               /\ ~ (FieldNames(Args0(fields(c)[k].type)) \subseteq DOMAIN e.m)

\* a present declared field of v holds a mapping, or an array where int or
\* str is declared, or an array with such an element mapping
ShapeFault(c, v) ==
  \E k \in 1..Len(fields(c)) :
    LET f == fields(c)[k]
    IN /\ f.name \in DOMAIN v.m
       /\ \/ v.m[f.name].t = "dict"
          \/ v.m[f.name].t = "list" /\ k \notin SeqFields(c)
          \/ /\ v.m[f.name].t = "list"
             /\ k \in SeqFields(c)
             /\ \E i \in 1..Len(v.m[f.name].items) :
                  LET e == v.m[f.name].items[i]
                  IN /\ e.t = "dict"
                     /\ \/ k \notin RecSeqFields(c)
                        \/ \E n \in DOMAIN e.m \cap FieldNames(Args0(f.type)) :
                             e.m[n].t \in {"list", "dict"}

\* ------------------------------------------------------------------- C1
\* C1: round-trip law.  Encoding a validly-constructed record and decoding
\* the result as the same class succeeds and returns a record structurally
\* equal to the original, empty sequences included.
C1_RoundTrip ==
  pc = "roundtrip" => rec.ok /\ PyEq(rec.val, r0)

C1_Witness ==
  /\ pc = "roundtrip"
  /\ cls = "GetMessagesResponse"
  /\ rec.ok
  /\ Len(r0.kw["messages"].items) = MaxLen
  /\ PyEq(rec.val, r0)

\* ------------------------------------------------------------------- C2
\* C2: decoding a wire mapping whose sequence-declared field holds a
\* primitive instead of an array fails and produces no record.
C2_NonSequenceFails ==
  (/\ pc = "decoded"
   /\ \E k \in SeqFields(cls) :
        /\ fields(cls)[k].name \in DOMAIN w0.m
        /\ IsPrim(w0.m[fields(cls)[k].name]))
  => ~ rec.ok

\* ------------------------------------------------------------------- C3
\* C3 as stated: whenever a declared field is missing, at the top level or
\* in an element mapping of a record sequence, decode fails as a whole with
\* the missing-field error, whatever the other fields hold.
C3_MissingFieldError ==
  (pc = "decoded" /\ MissingField(cls, w0))
  => ~ rec.ok /\ rec.err = "KeyError"

\* C3 amended: whenever a declared field is missing, decode fails as a whole
\* and returns no record; the failure is the missing-field error unless a
\* present value holds a mapping or array that the declared type cannot
\* decode, which may fail first with an attribute error.
C3_MissingFieldFails ==
  (pc = "decoded" /\ MissingField(cls, w0))
  => /\ ~ rec.ok
     /\ rec.err \in {"KeyError", "AttributeError"}
     /\ ~ ShapeFault(cls, w0) => rec.err = "KeyError"

C3_Witness ==
  /\ pc = "decoded"
  /\ cls = "GetChatsResponse"
  /\ "unexpected" \in DOMAIN w0.m
  /\ "chats" \in DOMAIN w0.m
  /\ w0.m["chats"].t = "list"
  /\ Len(w0.m["chats"].items) = 2
  /\ w0.m["chats"].items[1].t = "dict"
  /\ w0.m["chats"].items[2].t = "dict"
  /\ FieldNames("Chat") \subseteq DOMAIN w0.m["chats"].items[1].m
  /\ DOMAIN w0.m["chats"].items[2].m = {"chat_id"}
  /\ ~ rec.ok
  /\ rec.err = "KeyError"

\* ------------------------------------------------------------------- C4
\* C4: extra-key tolerance.  If decoding a wire mapping stripped of its
\* undeclared keys succeeds, decoding the mapping with those keys present,
\* at the top level or inside a nested record mapping, succeeds too and
\* returns the same record.
C4_ExtraKeysIgnored ==
  (pc = "decoded" /\ from_json(cls, DeclaredOnly(cls, w0)).ok)
  => /\ rec.ok
     /\ PyEq(rec.val, from_json(cls, DeclaredOnly(cls, w0)).val)

C4_Witness ==
  /\ pc = "decoded"
  /\ cls = "GetParticipantsResponse"
  /\ "unexpected" \in DOMAIN w0.m
  /\ w0.m["users"].t = "list"
  /\ Len(w0.m["users"].items) = 1
  /\ w0.m["users"].items[1].t = "dict"
  /\ DOMAIN w0.m["users"].items[1].m = FieldNames("User") \cup {"unexpected"}
  /\ rec.ok
  /\ rec.val.kw["users"].items[1] =
       Instance("User", Restrict("User", w0.m["users"].items[1].m))

\* ------------------------------------------------------------------- C5
\* C5: sequence order preservation.  The encoded array has the length of the
\* record's sequence and its i-th element is the encoding of the i-th
\* element; the decoded sequence has the length of the wire array and its
\* i-th element is the decoding of the i-th wire element.
C5_EncodeOrder ==
  pc = "encoded" =>
    \A k \in SeqFields(cls) :
      LET src == r0.kw[fields(cls)[k].name]
          out == w.m[fields(cls)[k].name]
      IN /\ out.t = "list"
         /\ Len(out.items) = Len(src.items)
         /\ \A i \in 1..Len(src.items) : out.items[i] = to_json(src.items[i])

C5_DecodeOrder ==
  (pc \in {"decoded", "roundtrip"} /\ rec.ok) =>
    \A k \in SeqFields(cls) :
      LET src == Decoded.m[fields(cls)[k].name]
          out == rec.val.kw[fields(cls)[k].name]
      IN src.t = "list" =>
           /\ out.t = "list"
           /\ Len(out.items) = Len(src.items)
           /\ \A i \in 1..Len(src.items) :
                LET e == src.items[i]
                IN out.items[i] =
                     IF e.t = "dict"
                       THEN Instance(Args0(fields(cls)[k].type),
                                     Restrict(Args0(fields(cls)[k].type), e.m))
                       ELSE e

C5_OrderPreserved == C5_EncodeOrder /\ C5_DecodeOrder

C5_Witness ==
  /\ pc = "roundtrip"
  /\ cls = "GetMessagesResponse"
  /\ rec.ok
  /\ Len(r0.kw["messages"].items) = MaxLen
  /\ r0.kw["messages"].items[1] # r0.kw["messages"].items[2]
  /\ rec.val.kw["messages"].items = r0.kw["messages"].items

\* ------------------------------------------------------------------- C6
\* C6: encode output shape.  to_json of a validly-constructed record is a
\* mapping whose keys are exactly the declared field names; an int or str
\* field maps to the same primitive, and each record of a sequence field is
\* a mapping with exactly its own declared field names and the same
\* primitives.
C6_EncodeShape ==
  pc = "encoded" =>
    /\ w.t = "dict"
    /\ DOMAIN w.m = FieldNames(cls)
    /\ \A k \in 1..Len(fields(cls)) :
         LET src == r0.kw[fields(cls)[k].name]
             out == w.m[fields(cls)[k].name]
         IN IF k \notin SeqFields(cls)
              THEN out = src
              ELSE /\ out.t = "list"
                   /\ \A i \in 1..Len(src.items) :
                        IF src.items[i].t = "obj"
                          THEN /\ out.items[i].t = "dict"
                               /\ DOMAIN out.items[i].m =
                                    FieldNames(src.items[i].cls)
                               /\ \A n \in FieldNames(src.items[i].cls) :
                                    out.items[i].m[n] = src.items[i].kw[n]
                          ELSE out.items[i] = src.items[i]

C6_Witness ==
  /\ pc = "encoded"
  /\ cls = "GetChatsResponse"
  /\ r0.kw["chats"].items =
       << Instance("Chat", [chat_id |-> PyInt(1), chat_name |-> PyStr("A")]),
          Instance("Chat", [chat_id |-> PyInt(2), chat_name |-> PyStr("B")]) >>
  /\ w = PyDict(0, [chats |-> PyList(0,
           << PyDict(0, [chat_id |-> PyInt(1), chat_name |-> PyStr("A")]),
              PyDict(0, [chat_id |-> PyInt(2), chat_name |-> PyStr("B")]) >>)])

\* ------------------------------------------------------------------- C7
\* C7: a decoded record is an independent copy: no mutable container
\* reachable from it is a container of the wire value it was decoded from.
C7_IndependentCopy ==
  (pc = "decoded" /\ rec.ok)
  => ContainerIds(rec.val) \cap ContainerIds(w0) = {}

C9_PrimitiveElementFails ==
  (/\ pc = "decoded"
   /\ \E k \in RecSeqFields(cls) :
        /\ fields(cls)[k].name \in DOMAIN w0.m
        /\ w0.m[fields(cls)[k].name].t = "list"
        /\ \E i \in 1..Len(w0.m[fields(cls)[k].name].items) :
             IsPrim(w0.m[fields(cls)[k].name].items[i]))
  => ~ rec.ok

\* ------------------------------------------------------------------ C10
\* C10: reverse round trip.  Encoding the record decoded from a wire mapping
\* gives back that mapping with every undeclared key removed, at the top
\* level and inside nested record mappings; no value at a declared key is
\* changed, added or coerced.
C10_ReverseRoundTrip ==
  pc = "reencoded" => PyEq(w, DeclaredOnly(cls, w0))

C10_Witness ==
  /\ pc = "reencoded"
  /\ cls = "GetChatsResponse"
  /\ HasExtraKey(cls, w0)
  /\ w0.m["chats"].t = "list"
  /\ Len(w0.m["chats"].items) = 2
  /\ w0.m["chats"].items[1].t = "dict"
  /\ w0.m["chats"].items[1].m["chat_id"] = PyStr("A")
  /\ IsPrim(w0.m["chats"].items[2])
  /\ PyEq(w, DeclaredOnly(cls, w0))

====
